---- MODULE Spec2Model ----
(***************************************************************************)
(* hash-orbit: the consistent hashing ring of src/src/index.ts             *)
(* (class HashOrbit).  The ring is a Map from 32-bit positions to node     *)
(* identifiers plus the ascending array sortedKeys of the Map's keys.  The *)
(* hash function hash32 is imported from the package murmur-hash: it is a  *)
(* fixed, deterministic function of the string, unknown to the ring, so    *)
(* the model fixes one arbitrary function in the initial state.            *)
(***************************************************************************)
EXTENDS Integers, Sequences, FiniteSets, TLC

(***************************************************************************)
(* Bounds of the model.                                                    *)
(***************************************************************************)
\* hash32 returns a value in 0..2^32-1; the model scales the space down.
MaxPos == 3
\* getN is called with counts in -1..MaxCount.
MaxCount == 3

\* Longest identifier validateIdentifier accepts.
MaxIdLength == 1000

\* options.replicas the ring is constructed with (the default is 150).
ReplicaOptions == {1, 2}

\* Node identifiers and keys the callers of Spec pass, all of them valid
\* (non-empty, at most MaxIdLength characters).  A key is any string: the
\* key "a:0" is also the string add("a") hashes for its first virtual node,
\* so its position is a's first position, and a point unrelated to the
\* stored positions while a is absent.
Nodes == {"a", "b", "c"}
Keys == {"a:0"}
Counts == (0 - 1)..MaxCount
Positions == 0..(MaxPos - 1)

\* The value of a JavaScript expression that evaluates to undefined.
undefined == "<undefined>"

VARIABLES
  hash,        \* hash32, as a function of the strings the ring hashes
  ring,        \* this.ring: Map<number, string>
  sortedKeys,  \* this.sortedKeys: number[]
  replicas,    \* this.replicas
  ret,         \* the last call and what it returned or threw
  lastOp,      \* history: the last of add and remove called for each node
  restored,    \* the ring a call of fromJSON returned: <<>> before any
  inProgress   \* the add or remove under way, <<op, node, i>>: <<>> when none

vars ==
  <<hash, ring, sortedKeys, replicas, ret, lastOp, restored, inProgress>>

(***************************************************************************)
(* `${node}:${i}`                                                          *)
(***************************************************************************)
virtualKey(node, i) == node \o ":" \o ToString(i)

\* The strings a ring of r replicas hands to hash32.
HashDomain(r) == {virtualKey(n, i) : n \in Nodes, i \in 0..(r - 1)} \cup Keys

hash32(s) == hash[s]

(***************************************************************************)
(* validateIdentifier: the message of the Error it throws, "" when it      *)
(* returns normally.  !value is true of the empty string only.             *)
(***************************************************************************)
\* validateIdentifier with value.length >= 1000
validateIdentifierOffByOne(value, name) ==
  IF value = "" THEN name \o " cannot be empty"
  ELSE IF Len(value) >= MaxIdLength
       THEN name \o " exceeds maximum length of 1000 characters"
       ELSE ""

validateIdentifier(value, name) ==
  IF value = "" THEN name \o " cannot be empty"
  ELSE IF Len(value) > MaxIdLength
       THEN name \o " exceeds maximum length of 1000 characters"
       ELSE ""

(***************************************************************************)
(* Map operations on the ring.                                             *)
(***************************************************************************)
MapSet(m, k, v) == [p \in (DOMAIN m) \cup {k} |-> IF p = k THEN v ELSE m[p]]
MapDelete(m, k) == [p \in (DOMAIN m) \ {k} |-> m[p]]
MapGet(m, k) == IF k \in DOMAIN m THEN m[k] ELSE undefined
EmptyMap == [p \in {} |-> ""]

\* new Set(this.ring.values())
getUniqueNodes(m) == {m[p] : p \in DOMAIN m}
size(m) == Cardinality(getUniqueNodes(m))
nodes(m) == getUniqueNodes(m)

(***************************************************************************)
(* [...this.ring.keys()].sort((a, b) => a - b)                             *)
(***************************************************************************)
\* sort((a, b) => b - a)
RECURSIVE SortDescending(_)
SortDescending(S) ==
  IF S = {} THEN <<>>
  ELSE LET most == CHOOSE x \in S : \A y \in S : x >= y
       IN <<most>> \o SortDescending(S \ {most})

RECURSIVE SortAscending(_)
SortAscending(S) ==
  IF S = {} THEN <<>>
  ELSE LET least == CHOOSE x \in S : \A y \in S : x <= y
       IN <<least>> \o SortAscending(S \ {least})

sortKeys(m) == SortAscending(DOMAIN m)

(***************************************************************************)
(* The loops of add and remove, from replica index i on.  The conjunct     *)
(* m = m is always true: it has the Map of one iteration evaluated before  *)
(* the next iteration starts, as the code has it, which keeps the          *)
(* evaluation of a loop of 150 replicas shallow.                           *)
(***************************************************************************)
\* add stepping a taken position on to the next free one
RECURSIVE addLoopProbing(_, _, _, _)
addLoopProbing(m, node, i, n) ==
  IF i < n
  THEN LET p == hash32(virtualKey(node, i))
           free == {q \in Positions : q \notin DOMAIN m}
           after == {q \in free : q > p}
           to == IF p \in free \/ free = {} THEN p
                 ELSE IF after # {}
                      THEN CHOOSE q \in after : \A x \in after : q <= x
                      ELSE CHOOSE q \in free : \A x \in free : q <= x
       IN addLoopProbing(MapSet(m, to, node), node, i + 1, n)
  ELSE m

\* add with i < this.replicas - 1
RECURSIVE addLoopShort(_, _, _, _)
addLoopShort(m, node, i, n) ==
  IF i < n - 1
  THEN addLoopShort(MapSet(m, hash32(virtualKey(node, i)), node), node, i + 1, n)
  ELSE m

\* add writing a position only when the Map does not have it
RECURSIVE addLoopKeepFirst(_, _, _, _)
addLoopKeepFirst(m, node, i, n) ==
  IF i < n
  THEN LET p == hash32(virtualKey(node, i))
       IN addLoopKeepFirst(IF p \in DOMAIN m THEN m ELSE MapSet(m, p, node),
                           node, i + 1, n)
  ELSE m

\* add hashing `${node}:0` only and stepping i positions on from it
RECURSIVE addLoopStepping(_, _, _, _)
addLoopStepping(m, node, i, n) ==
  IF i < n
  THEN LET p == (hash32(virtualKey(node, 0)) + i) % MaxPos
       IN addLoopStepping(MapSet(m, p, node), node, i + 1, n)
  ELSE m

\* The loop of add as a do-while: the body runs once before the test.
RECURSIVE addLoopAtLeastOnce(_, _, _, _)
addLoopAtLeastOnce(m, node, i, n) ==
  LET written == MapSet(m, hash32(virtualKey(node, i)), node)
  IN IF i + 1 < n /\ written = written
     THEN addLoopAtLeastOnce(written, node, i + 1, n)
     ELSE written

RECURSIVE addLoop(_, _, _, _)
addLoop(m, node, i, n) ==
  IF i < n /\ m = m
  THEN addLoop(MapSet(m, hash32(virtualKey(node, i)), node), node, i + 1, n)
  ELSE m

\* remove with i < this.replicas - 1
RECURSIVE removeLoopShort(_, _, _, _)
removeLoopShort(m, node, i, n) ==
  IF i < n - 1
  THEN removeLoopShort(MapDelete(m, hash32(virtualKey(node, i))), node, i + 1, n)
  ELSE m

RECURSIVE removeLoop(_, _, _, _)
removeLoop(m, node, i, n) ==
  IF i < n /\ m = m
  THEN removeLoop(MapDelete(m, hash32(virtualKey(node, i))), node, i + 1, n)
  ELSE m

(***************************************************************************)
(* binarySearch: the lower bound of target in keys, 1 + the 0-based index  *)
(* being keys[mid + 1] in a TLA+ sequence.                                 *)
(***************************************************************************)
RECURSIVE binarySearchLoop(_, _, _, _)
binarySearchLoop(keys, target, left, right) ==
  IF left < right
  THEN LET mid == (left + right) \div 2
       IN IF keys[mid + 1] < target
          THEN binarySearchLoop(keys, target, mid + 1, right)
          ELSE binarySearchLoop(keys, target, left, mid)
  ELSE left

\* The loop with right = mid - 1 for right = mid.
RECURSIVE offByOneLoop(_, _, _, _)
offByOneLoop(keys, target, left, right) ==
  IF left < right
  THEN LET mid == (left + right) \div 2
       IN IF keys[mid + 1] < target
          THEN offByOneLoop(keys, target, mid + 1, right)
          ELSE offByOneLoop(keys, target, left, mid - 1)
  ELSE left

binarySearchOffByOne(keys, target) == offByOneLoop(keys, target, 0, Len(keys))

\* The loop with <= for <: the upper bound of target.
RECURSIVE upperBoundLoop(_, _, _, _)
upperBoundLoop(keys, target, left, right) ==
  IF left < right
  THEN LET mid == (left + right) \div 2
       IN IF keys[mid + 1] <= target
          THEN upperBoundLoop(keys, target, mid + 1, right)
          ELSE upperBoundLoop(keys, target, left, mid)
  ELSE left

binarySearchUpper(keys, target) == upperBoundLoop(keys, target, 0, Len(keys))

binarySearch(keys, target) == binarySearchLoop(keys, target, 0, Len(keys))

\* The loop with mid = left: a scan from the left, counted.
RECURSIVE scanCounted(_, _, _, _, _)
scanCounted(keys, target, left, right, n) ==
  IF left < right
  THEN LET mid == left
       IN IF keys[mid + 1] < target
          THEN scanCounted(keys, target, mid + 1, right, n + 1)
          ELSE scanCounted(keys, target, left, mid, n + 1)
  ELSE <<left, n>>

\* The loop of binarySearch with its iterations counted: <<left, n>>.
RECURSIVE binarySearchCounted(_, _, _, _, _)
binarySearchCounted(keys, target, left, right, n) ==
  IF left < right
  THEN LET mid == (left + right) \div 2
       IN IF keys[mid + 1] < target
          THEN binarySearchCounted(keys, target, mid + 1, right, n + 1)
          ELSE binarySearchCounted(keys, target, left, mid, n + 1)
  ELSE <<left, n>>

\* this.sortedKeys[idx], undefined outside the array
at(keys, idx) == IF idx >= 0 /\ idx < Len(keys) THEN keys[idx + 1] ELSE (0 - 1)

(***************************************************************************)
(* get(key) past validation.                                               *)
(***************************************************************************)
\* get without the wrap to index 0
noWrap(keys, idx) == idx

wrap(keys, idx) == IF idx >= Len(keys) THEN 0 ELSE idx

get(m, keys, key) ==
  IF Cardinality(DOMAIN m) = 0 THEN undefined
  ELSE LET position == hash32(key)
           idx == wrap(keys, binarySearch(keys, position))
       IN MapGet(m, at(keys, idx))

(***************************************************************************)
(* getN(key, count) past validation: the for loop from iteration i on.     *)
(***************************************************************************)
InSeq(x, s) == \E j \in 1..Len(s) : s[j] = x

\* getNLoop without the seen set
RECURSIVE getNLoopNoSeen(_, _, _, _, _, _)
getNLoopNoSeen(m, keys, count, i, idx, result) ==
  IF i < Len(keys) /\ Len(result) < count
  THEN LET at0 == wrap(keys, idx)
           node == MapGet(m, at(keys, at0))
           pushed == IF node # undefined /\ node # ""
                     THEN Append(result, node)
                     ELSE result
       IN getNLoopNoSeen(m, keys, count, i + 1, at0 + 1, pushed)
  ELSE result

\* getNLoop with i < this.sortedKeys.length - 1
RECURSIVE getNLoopShort(_, _, _, _, _, _)
getNLoopShort(m, keys, count, i, idx, result) ==
  IF i < Len(keys) - 1 /\ Len(result) < count
  THEN LET at0 == wrap(keys, idx)
           node == MapGet(m, at(keys, at0))
           pushed == IF node # undefined /\ node # "" /\ ~InSeq(node, result)
                     THEN Append(result, node)
                     ELSE result
       IN getNLoopShort(m, keys, count, i + 1, at0 + 1, pushed)
  ELSE result

\* getNLoop with result.length <= count
RECURSIVE getNLoopOneMore(_, _, _, _, _, _)
getNLoopOneMore(m, keys, count, i, idx, result) ==
  IF i < Len(keys) /\ Len(result) <= count
  THEN LET at0 == wrap(keys, idx)
           node == MapGet(m, at(keys, at0))
           pushed == IF node # undefined /\ node # "" /\ ~InSeq(node, result)
                     THEN Append(result, node)
                     ELSE result
       IN getNLoopOneMore(m, keys, count, i + 1, at0 + 1, pushed)
  ELSE result

\* getNLoop walking the ring downwards: idx-- after the first position,
\* wrapping from index 0 to the last index
RECURSIVE getNLoopBackward(_, _, _, _, _, _)
getNLoopBackward(m, keys, count, i, idx, result) ==
  IF i < Len(keys) /\ Len(result) < count
  THEN LET at0 == IF idx < 0 THEN Len(keys) - 1 ELSE wrap(keys, idx)
           node == MapGet(m, at(keys, at0))
           pushed == IF node # undefined /\ node # "" /\ ~InSeq(node, result)
                     THEN Append(result, node)
                     ELSE result
       IN getNLoopBackward(m, keys, count, i + 1, at0 - 1, pushed)
  ELSE result

RECURSIVE getNLoop(_, _, _, _, _, _)
getNLoop(m, keys, count, i, idx, result) ==
  IF i < Len(keys) /\ Len(result) < count
  THEN LET at0 == wrap(keys, idx)
           node == MapGet(m, at(keys, at0))
           pushed == IF node # undefined /\ node # "" /\ ~InSeq(node, result)
                     THEN Append(result, node)
                     ELSE result
       IN getNLoop(m, keys, count, i + 1, at0 + 1, pushed)
  ELSE result

\* getN starting its walk one position after the lower bound
getNFromNext(m, keys, key, count) ==
  IF Cardinality(DOMAIN m) = 0 \/ count <= 0 THEN <<>>
  ELSE getNLoop(m, keys, count, 0, binarySearch(keys, hash32(key)) + 1, <<>>)

\* getN without the count <= 0 guard and with result.length !== count
RECURSIVE getNLoopUntilEqual(_, _, _, _, _, _)
getNLoopUntilEqual(m, keys, count, i, idx, result) ==
  IF i < Len(keys) /\ Len(result) # count
  THEN LET at0 == wrap(keys, idx)
           node == MapGet(m, at(keys, at0))
           pushed == IF node # undefined /\ node # "" /\ ~InSeq(node, result)
                     THEN Append(result, node)
                     ELSE result
       IN getNLoopUntilEqual(m, keys, count, i + 1, at0 + 1, pushed)
  ELSE result

getNUnguarded(m, keys, key, count) ==
  IF Cardinality(DOMAIN m) = 0 THEN <<>>
  ELSE getNLoopUntilEqual(m, keys, count, 0, binarySearch(keys, hash32(key)), <<>>)

getN(m, keys, key, count) ==
  IF Cardinality(DOMAIN m) = 0 \/ count <= 0 THEN <<>>
  ELSE getNLoop(m, keys, count, 0, binarySearch(keys, hash32(key)), <<>>)

\* The loop of getN going on after count nodes are collected, counted.
RECURSIVE getNLoopToTheEnd(_, _, _, _, _, _, _)
getNLoopToTheEnd(m, keys, count, i, idx, result, visited) ==
  IF i < Len(keys)
  THEN LET at0 == wrap(keys, idx)
           node == MapGet(m, at(keys, at0))
           pushed == IF /\ node # undefined /\ node # "" /\ ~InSeq(node, result)
                        /\ Len(result) < count
                     THEN Append(result, node)
                     ELSE result
       IN getNLoopToTheEnd(m, keys, count, i + 1, at0 + 1, pushed,
                           Append(visited, <<at0, Len(pushed)>>))
  ELSE <<result, visited>>

\* The loop of getN with its iterations listed: <<result, visited>>, visited
\* holding for each iteration the index read and result.length after it.
RECURSIVE getNLoopCounted(_, _, _, _, _, _, _)
getNLoopCounted(m, keys, count, i, idx, result, visited) ==
  IF i < Len(keys) /\ Len(result) < count
  THEN LET at0 == wrap(keys, idx)
           node == MapGet(m, at(keys, at0))
           pushed == IF node # undefined /\ node # "" /\ ~InSeq(node, result)
                     THEN Append(result, node)
                     ELSE result
       IN getNLoopCounted(m, keys, count, i + 1, at0 + 1, pushed,
                          Append(visited, <<at0, Len(pushed)>>))
  ELSE <<result, visited>>

getNCounted(m, keys, key, count) ==
  IF Cardinality(DOMAIN m) = 0 \/ count <= 0 THEN <<<<>>, <<>>>>
  ELSE getNLoopCounted(m, keys, count, 0, binarySearch(keys, hash32(key)),
                       <<>>, <<>>)

(***************************************************************************)
(* toJSON and fromJSON.  The nodes array of toJSON lists the distinct      *)
(* values of the Map in the order the Map iterates; the model keeps the    *)
(* Map as a function and the array as the set of its elements, and         *)
(* Listings gives the orders an iteration can list them in.  fromJSON      *)
(* makes a ring of json.replicas and adds the nodes in the listed order;   *)
(* the nodes of a toJSON passed validation when they were added.           *)
(***************************************************************************)
\* toJSON handing out the number of positions in place of this.replicas
toJSONPositions(m, r) == [nodes |-> nodes(m), replicas |-> Cardinality(DOMAIN m)]

toJSON(m, r) == [nodes |-> nodes(m), replicas |-> r]

Listings(S) ==
  {s \in [1..Cardinality(S) -> S] : \A i, j \in DOMAIN s : s[i] = s[j] => i = j}

RECURSIVE fromJSONLoop(_, _, _, _)
fromJSONLoop(m, listed, j, r) ==
  IF j <= Len(listed)
  THEN fromJSONLoop(addLoop(m, listed[j], 0, r), listed, j + 1, r)
  ELSE m

fromJSON(listed, r) == fromJSONLoop(EmptyMap, listed, 1, r)

\* `HashOrbit(nodes=${this.size}, positions=${this.sortedKeys.length}, replicas=${this.replicas})`
toString(m, keys, r) ==
  "HashOrbit(nodes=" \o ToString(size(m)) \o ", positions="
    \o ToString(Len(keys)) \o ", replicas=" \o ToString(r) \o ")"

(***************************************************************************)
(* The calls.  ret records the last call: the method (op), its identifier  *)
(* argument (arg), whether it threw, and either the Error's message (val,  *)
(* of a call that threw) or the count and the returned value (val: the     *)
(* node list of getN, the one value of get, the object of toJSON, the      *)
(* string of toString, nothing for add and remove).                        *)
(***************************************************************************)
Threw(op, arg, msg) ==
  [op |-> op, threw |-> TRUE, arg |-> arg, count |-> 0, val |-> <<msg>>]
Returned(op, arg, count, val) ==
  [op |-> op, threw |-> FALSE, arg |-> arg, count |-> count, val |-> val]

Init ==
  /\ replicas \in ReplicaOptions
  /\ hash \in [HashDomain(replicas) -> Positions]
  /\ ring = EmptyMap
  /\ sortedKeys = <<>>
  /\ ret = Returned("new", "", 0, <<>>)
  /\ lastOp = [n \in Nodes |-> "none"]
  /\ restored = <<>>
  /\ inProgress = <<>>

\* add emptying this.sortedKeys before it validates
addClearingIndexFirst(node) ==
  LET err == validateIdentifier(node, "Node identifier")
  IN IF err # ""
     THEN /\ sortedKeys' = <<>>
          /\ ret' = Threw("add", node, err)
          /\ UNCHANGED <<hash, ring, replicas>>
     ELSE LET m == addLoop(ring, node, 0, replicas)
          IN /\ ring' = m
             /\ sortedKeys' = sortKeys(m)
             /\ ret' = Returned("add", node, 0, <<>>)
             /\ UNCHANGED <<hash, replicas>>

\* add leaving this.sortedKeys as it was
addStaleIndex(node) ==
  LET err == validateIdentifier(node, "Node identifier")
  IN IF err # ""
     THEN /\ ret' = Threw("add", node, err)
          /\ UNCHANGED <<hash, ring, sortedKeys, replicas>>
     ELSE /\ ring' = addLoop(ring, node, 0, replicas)
          /\ ret' = Returned("add", node, 0, <<>>)
          /\ UNCHANGED <<hash, sortedKeys, replicas>>

add(node) ==
  LET err == validateIdentifier(node, "Node identifier")
  IN IF err # ""
     THEN /\ ret' = Threw("add", node, err)
          /\ UNCHANGED <<hash, ring, sortedKeys, replicas>>
     ELSE LET m == addLoop(ring, node, 0, replicas)
          IN /\ ring' = m
             /\ sortedKeys' = sortKeys(m)
             /\ ret' = Returned("add", node, 0, <<>>)
             /\ UNCHANGED <<hash, replicas>>

\* remove returning early when the ring holds a single node
removeUnlessLast(node) ==
  LET err == validateIdentifier(node, "Node identifier")
  IN IF err # ""
     THEN /\ ret' = Threw("remove", node, err)
          /\ UNCHANGED <<hash, ring, sortedKeys, replicas>>
     ELSE LET m == IF size(ring) = 1 THEN ring
                   ELSE removeLoop(ring, node, 0, replicas)
          IN /\ ring' = m
             /\ sortedKeys' = sortKeys(m)
             /\ ret' = Returned("remove", node, 0, <<>>)
             /\ UNCHANGED <<hash, replicas>>

remove(node) ==
  LET err == validateIdentifier(node, "Node identifier")
  IN IF err # ""
     THEN /\ ret' = Threw("remove", node, err)
          /\ UNCHANGED <<hash, ring, sortedKeys, replicas>>
     ELSE LET m == removeLoop(ring, node, 0, replicas)
          IN /\ ring' = m
             /\ sortedKeys' = sortKeys(m)
             /\ ret' = Returned("remove", node, 0, <<>>)
             /\ UNCHANGED <<hash, replicas>>

\* get validating its key under the name of add's parameter
getCallNodeName(key) ==
  LET err == validateIdentifier(key, "Node identifier")
  IN IF err # "" THEN Threw("get", key, err)
     ELSE Returned("get", key, 0, <<get(ring, sortedKeys, key)>>)

\* What a call of get(key) hands back: the Error or the returned value.
getCall(key) ==
  LET err == validateIdentifier(key, "Key")
  IN IF err # "" THEN Threw("get", key, err)
     ELSE Returned("get", key, 0, <<get(ring, sortedKeys, key)>>)

\* What a call of getN(key, count) hands back.
getNCall(key, count) ==
  LET err == validateIdentifier(key, "Key")
  IN IF err # "" THEN Threw("getN", key, err)
     ELSE Returned("getN", key, count, getN(ring, sortedKeys, key, count))

Get(key) ==
  /\ ret' = getCall(key)
  /\ UNCHANGED <<hash, ring, sortedKeys, replicas>>

\* getN taking the positions it walks off this.sortedKeys
GetNConsuming(key, count) ==
  /\ ret' = getNCall(key, count)
  /\ sortedKeys' = IF ret'.threw THEN sortedKeys
                   ELSE SubSeq(sortedKeys, Len(ret'.val) + 1, Len(sortedKeys))
  /\ UNCHANGED <<hash, ring, replicas>>

GetN(key, count) ==
  /\ ret' = getNCall(key, count)
  /\ UNCHANGED <<hash, ring, sortedKeys, replicas>>

\* A call of toJSON(): the returned object, its replicas in count as well.
ToJSON ==
  /\ ret' = Returned("toJSON", "", replicas, <<toJSON(ring, replicas)>>)
  /\ UNCHANGED <<hash, ring, sortedKeys, replicas>>

\* A call of toString().
ToStringCall ==
  /\ ret' = Returned("toString", "", 0, <<toString(ring, sortedKeys, replicas)>>)
  /\ UNCHANGED <<hash, ring, sortedKeys, replicas>>

Add == \E node \in Nodes : add(node) /\ UNCHANGED <<lastOp, restored, inProgress>>
Remove == \E node \in Nodes : remove(node) /\ UNCHANGED <<lastOp, restored, inProgress>>
Lookup == \E key \in Keys : Get(key) /\ UNCHANGED <<lastOp, restored, inProgress>>
LookupN == \E key \in Keys, count \in Counts : GetN(key, count) /\ UNCHANGED <<lastOp, restored, inProgress>>
Serialize == ToJSON /\ UNCHANGED <<lastOp, restored, inProgress>>
Describe == ToStringCall /\ UNCHANGED <<lastOp, restored, inProgress>>

Next == Add \/ Remove \/ Lookup \/ LookupN \/ Serialize \/ Describe

Spec == Init /\ [][Next]_vars

(***************************************************************************)
(* The same calls with their history kept: lastOp records, for each node,  *)
(* whether add or remove was the last to be called for it and returned.    *)
(***************************************************************************)
Called(op, node) ==
  lastOp' = IF ret'.threw THEN lastOp ELSE [lastOp EXCEPT ![node] = op]

AddRecorded ==
  \E node \in Nodes : add(node) /\ Called("add", node) /\ UNCHANGED <<restored, inProgress>>
RemoveRecorded ==
  \E node \in Nodes : remove(node) /\ Called("remove", node) /\ UNCHANGED <<restored, inProgress>>

NextRecorded == AddRecorded \/ RemoveRecorded \/ Lookup

SpecRecorded == Init /\ [][NextRecorded]_vars

(***************************************************************************)
(* A ring and the ring fromJSON makes of its toJSON, both in use: the      *)
(* calls on the ring itself, the getters size and nodes, fromJSON, and     *)
(* add and remove called on the restored ring.                             *)
(***************************************************************************)
RestoreNodes == {"a", "b"}

InitRestore ==
  /\ replicas \in ReplicaOptions
  /\ hash \in [{virtualKey(n, i) : n \in RestoreNodes, i \in 0..(replicas - 1)}
                 \cup Keys -> Positions]
  /\ ring = EmptyMap
  /\ sortedKeys = <<>>
  /\ ret = Returned("new", "", 0, <<>>)
  /\ lastOp = [n \in Nodes |-> "none"]
  /\ restored = <<>>
  /\ inProgress = <<>>

\* The fields of a HashOrbit whose Map is m and whose replicas is r.
HashOrbit(m, r) == [ring |-> m, sortedKeys |-> sortKeys(m), replicas |-> r]

SizeCall ==
  /\ ret' = Returned("size", "", 0, <<size(ring)>>)
  /\ UNCHANGED <<hash, ring, sortedKeys, replicas, lastOp, restored, inProgress>>

NodesCall ==
  /\ ret' = Returned("nodes", "", 0, <<nodes(ring)>>)
  /\ UNCHANGED <<hash, ring, sortedKeys, replicas, lastOp, restored, inProgress>>

\* HashOrbit.fromJSON(this.toJSON())
FromJSON ==
  /\ \E listed \in Listings(toJSON(ring, replicas).nodes) :
       restored' = <<HashOrbit(fromJSON(listed, toJSON(ring, replicas).replicas),
                               toJSON(ring, replicas).replicas)>>
  /\ ret' = Returned("fromJSON", "", 0, <<>>)
  /\ UNCHANGED <<hash, ring, sortedKeys, replicas, lastOp, inProgress>>

\* add(node) and remove(node) called on the restored ring.
AddRestored ==
  /\ restored # <<>>
  /\ \E node \in RestoreNodes :
       /\ restored' = <<HashOrbit(addLoop(restored[1].ring, node, 0,
                                          restored[1].replicas),
                                  restored[1].replicas)>>
       /\ ret' = Returned("restored.add", node, 0, <<>>)
  /\ UNCHANGED <<hash, ring, sortedKeys, replicas, lastOp, inProgress>>

RemoveRestored ==
  /\ restored # <<>>
  /\ \E node \in RestoreNodes :
       /\ restored' = <<HashOrbit(removeLoop(restored[1].ring, node, 0,
                                             restored[1].replicas),
                                  restored[1].replicas)>>
       /\ ret' = Returned("restored.remove", node, 0, <<>>)
  /\ UNCHANGED <<hash, ring, sortedKeys, replicas, lastOp, inProgress>>

AddOriginal == \E node \in RestoreNodes : add(node) /\ UNCHANGED <<lastOp, restored, inProgress>>
RemoveOriginal ==
  \E node \in RestoreNodes : remove(node) /\ UNCHANGED <<lastOp, restored, inProgress>>
LookupNTwo == \E key \in Keys : GetN(key, 2) /\ UNCHANGED <<lastOp, restored, inProgress>>

NextRestore ==
  \/ AddOriginal \/ RemoveOriginal
  \/ Lookup \/ LookupNTwo \/ SizeCall \/ NodesCall \/ Serialize \/ Describe
  \/ FromJSON \/ AddRestored \/ RemoveRestored

SpecRestore == InitRestore /\ [][NextRestore]_vars

(***************************************************************************)
(* add and remove taken one statement at a time, with readers in between:  *)
(* validation, then one write or delete of the loop per step, then the     *)
(* rebuild of sortedKeys, which ends the call.  One add or remove is under *)
(* way at a time; get and getN run at any point of it.                     *)
(***************************************************************************)
BeginAdd ==
  /\ inProgress = <<>>
  /\ \E node \in RestoreNodes :
       /\ validateIdentifier(node, "Node identifier") = ""
       /\ inProgress' = <<"add", node, 0>>
  /\ UNCHANGED <<hash, ring, sortedKeys, replicas, ret, lastOp, restored>>

BeginRemove ==
  /\ inProgress = <<>>
  /\ \E node \in RestoreNodes :
       /\ validateIdentifier(node, "Node identifier") = ""
       /\ inProgress' = <<"remove", node, 0>>
  /\ UNCHANGED <<hash, ring, sortedKeys, replicas, ret, lastOp, restored>>

\* One iteration of the loop: this.ring.set or this.ring.delete.
WriteStep ==
  /\ inProgress # <<>>
  /\ inProgress[3] < replicas
  /\ LET position == hash32(virtualKey(inProgress[2], inProgress[3]))
     IN ring' = IF inProgress[1] = "add"
                THEN MapSet(ring, position, inProgress[2])
                ELSE MapDelete(ring, position)
  /\ inProgress' = <<inProgress[1], inProgress[2], inProgress[3] + 1>>
  /\ UNCHANGED <<hash, sortedKeys, replicas, ret, lastOp, restored>>

\* Rebuild keeping the index as it is
RebuildStale ==
  /\ inProgress # <<>>
  /\ inProgress[3] >= replicas
  /\ ret' = Returned(inProgress[1], inProgress[2], 0, <<>>)
  /\ inProgress' = <<>>
  /\ UNCHANGED <<hash, ring, sortedKeys, replicas, lastOp, restored>>

\* this.sortedKeys = [...this.ring.keys()].sort(...), and the call returns.
Rebuild ==
  /\ inProgress # <<>>
  /\ inProgress[3] >= replicas
  /\ sortedKeys' = sortKeys(ring)
  /\ ret' = Returned(inProgress[1], inProgress[2], 0, <<>>)
  /\ inProgress' = <<>>
  /\ UNCHANGED <<hash, ring, replicas, lastOp, restored>>

NextSteps ==
  BeginAdd \/ BeginRemove \/ WriteStep \/ Rebuild \/ Lookup \/ LookupNTwo

SpecSteps == InitRestore /\ [][NextSteps]_vars

(***************************************************************************)
(* The constructor with and without options.replicas: the default of 150,  *)
(* the replica counts of the other specifications, and counts of zero and  *)
(* below, which the constructor does not validate.  options is <<>> when   *)
(* no replicas is given and <<r>> when r is.  The hash puts replica i of a *)
(* node at position (i + d) modulo the number of positions.                *)
(***************************************************************************)
DefaultReplicas == 150

\* this.replicas = options.replicas ?? 150, always 150
constructorIgnoringOptions(options) == DefaultReplicas

constructorReplicas(options) ==
  IF options = <<>> THEN DefaultReplicas ELSE options[1]

ConstructorOptions == {<<>>, <<1>>, <<2>>, <<0>>, <<0 - 1>>}

OptionsHashDomain(r) ==
  {virtualKey(n, i) : n \in RestoreNodes, i \in 0..(IF r > 1 THEN r - 1 ELSE 0)}

InitOptions ==
  \E options \in ConstructorOptions, d \in Positions :
    /\ replicas = constructorReplicas(options)
    /\ hash = [s \in OptionsHashDomain(replicas) |->
                 LET ni == CHOOSE x \in RestoreNodes \X (0..DefaultReplicas) :
                             virtualKey(x[1], x[2]) = s
                 IN (ni[2] + d) % MaxPos]
    /\ ring = EmptyMap
    /\ sortedKeys = <<>>
    /\ ret = Returned("new", "", 0, options)
    /\ lastOp = [n \in Nodes |-> "none"]
    /\ restored = <<>>
    /\ inProgress = <<>>

NextOptions ==
  \/ AddOriginal \/ RemoveOriginal
  \/ Lookup \/ LookupNTwo \/ Serialize \/ Describe \/ FromJSON

SpecOptions == InitOptions /\ [][NextOptions]_vars

(***************************************************************************)
(* Lookups in longer indexes: a ring of one node "a" whose replicas hash   *)
(* to the positions of a set S, ascending in the replica index, and a key  *)
(* hashing anywhere from 0 to one past the last position.                  *)
(***************************************************************************)
MaxSearchPos == 8

SearchKeys == {"k"}

InitSearch ==
  \E S \in (SUBSET (0..(MaxSearchPos - 1))) \ {{}}, t \in 0..MaxSearchPos :
    /\ replicas = Cardinality(S)
    /\ hash = [s \in {virtualKey("a", i) : i \in 0..(Cardinality(S) - 1)}
                       \cup SearchKeys |->
                 IF s \in SearchKeys THEN t
                 ELSE SortAscending(S)[1 + CHOOSE i \in 0..(Cardinality(S) - 1) :
                                             virtualKey("a", i) = s]]
    /\ ring = EmptyMap
    /\ sortedKeys = <<>>
    /\ ret = Returned("new", "", 0, <<>>)
    /\ lastOp = [n \in Nodes |-> "none"]
    /\ restored = <<>>
    /\ inProgress = <<>>

AddSearch == add("a") /\ UNCHANGED <<lastOp, restored, inProgress>>
RemoveSearch == remove("a") /\ UNCHANGED <<lastOp, restored, inProgress>>
LookupSearch == \E key \in SearchKeys : Get(key) /\ UNCHANGED <<lastOp, restored, inProgress>>

NextSearch == AddSearch \/ RemoveSearch \/ LookupSearch

SpecSearch == InitSearch /\ [][NextSearch]_vars

(***************************************************************************)
(* The calls with identifiers at the edges of validateIdentifier: the      *)
(* empty string, a single blank, and strings of 1000 and 1001 characters.  *)
(***************************************************************************)
RECURSIVE Repeat(_, _)
Repeat(s, n) ==
  IF n = 0 THEN ""
  ELSE IF n % 2 = 0
       THEN LET half == Repeat(s, n \div 2) IN half \o half
       ELSE s \o Repeat(s, n - 1)

Longest == Repeat("x", MaxIdLength)
TooLong == Repeat("x", MaxIdLength + 1)

Accepted == {" ", Longest}
Identifiers == {"", TooLong} \cup Accepted

InitEdges ==
  /\ replicas \in ReplicaOptions
  /\ hash \in [{virtualKey(n, i) : n \in Accepted, i \in 0..(replicas - 1)}
                 \cup Accepted -> Positions]
  /\ ring = EmptyMap
  /\ sortedKeys = <<>>
  /\ ret = Returned("new", "", 0, <<>>)
  /\ lastOp = [n \in Nodes |-> "none"]
  /\ restored = <<>>
  /\ inProgress = <<>>

AddEdges == \E node \in Identifiers : add(node) /\ UNCHANGED <<lastOp, restored, inProgress>>
RemoveEdges == \E node \in Identifiers : remove(node) /\ UNCHANGED <<lastOp, restored, inProgress>>
LookupEdges == \E key \in Identifiers : Get(key) /\ UNCHANGED <<lastOp, restored, inProgress>>
LookupNEdges == \E key \in Identifiers : GetN(key, 1) /\ UNCHANGED <<lastOp, restored, inProgress>>

NextEdges == AddEdges \/ RemoveEdges \/ LookupEdges \/ LookupNEdges

SpecEdges == InitEdges /\ [][NextEdges]_vars

(***************************************************************************)
(* Vocabulary of the properties.  Every call is made in every reachable    *)
(* state of the ring, and no later call leaves ret in place, so a property *)
(* of ret is a property of every call on every reachable ring.             *)
(***************************************************************************)
Min(S) == CHOOSE x \in S : \A y \in S : x <= y

ValidKey(k) == k # "" /\ Len(k) <= MaxIdLength

GotFrom(op) == ret.op = op /\ ~ret.threw

\* The stored position a key resolves to on a ring with positions: the
\* smallest one at or after the key's hash, else the smallest one.
Successor(key) ==
  LET after == {p \in DOMAIN ring : p >= hash[key]}
  IN IF after # {} THEN Min(after) ELSE Min(DOMAIN ring)

Wraps(key) == DOMAIN ring # {} /\ \A p \in DOMAIN ring : p < hash[key]

ValuesOf(s) == {s[i] : i \in 1..Len(s)}

\* The place of a stored position in ascending order, from 0.
Rank(p) == Cardinality({q \in DOMAIN ring : q < p})

\* The number of steps from the position the key resolves to up to the
\* stored position p, walking upwards and wrapping past the largest.
WalkOffset(key, p) ==
  (Rank(p) - Rank(Successor(key))) % Cardinality(DOMAIN ring)

\* The first step of the walk that meets a position of node x.
FirstMet(key, x) ==
  Min({WalkOffset(key, p) : p \in {q \in DOMAIN ring : ring[q] = x}})

InWalkOrder(key, r) ==
  \A i, j \in 1..Len(r) : (i < j) <=> (FirstMet(key, r[i]) < FirstMet(key, r[j]))

\* C1: on a ring with at least one position, get(key) returns the owner of
\* the smallest stored position >= hash(key), and with no such position the
\* owner of the smallest stored position.
C1_GetReturnsSuccessorOwner ==
  (GotFrom("get") /\ DOMAIN ring # {}) => ret.val = <<ring[Successor(ret.arg)]>>

\* A get that wrapped around to the smallest position of a two-node ring.
C1_Witness ==
  /\ GotFrom("get")
  /\ Wraps(ret.arg)
  /\ size(ring) = 2
  /\ ret.val = <<ring[Min(DOMAIN ring)]>>

\* C2: get with a valid key returns undefined exactly when the ring holds no
\* node (size = 0, no position); otherwise it returns a member of nodes.
C2_GetUndefinedIffEmpty ==
  (ret.op = "get" /\ ValidKey(ret.arg))
    => /\ ~ret.threw
       /\ (ret.val = <<undefined>>) <=> (size(ring) = 0)
       /\ (size(ring) = 0) <=> (DOMAIN ring = {})
       /\ size(ring) # 0 => ret.val[1] \in nodes(ring)

\* A get on a ring emptied by a remove returned undefined.
C2_Witness ==
  /\ GotFrom("get")
  /\ ret.val = <<undefined>>
  /\ DOMAIN ring = {}

\* C3: minimal redistribution on removal: remove(N) of a present node N
\* leaves every key that was routed to a node other than N on that node.
C3_RemoveMovesOnlyKeysOfRemoved ==
  [][(ret'.op = "remove" /\ ~ret'.threw /\ ret'.arg \in nodes(ring))
       => \A k \in Keys :
            get(ring, sortedKeys, k) # ret'.arg
              => get(ring', sortedKeys', k) = get(ring, sortedKeys, k)]_vars

\* C4: minimal redistribution on addition: after add(N) every key is routed
\* to N or to the node it was routed to before.
C4_AddMovesKeysOnlyToAdded ==
  [][(ret'.op = "add" /\ ~ret'.threw)
       => \A k \in Keys :
            get(ring', sortedKeys', k) \in {ret'.arg, get(ring, sortedKeys, k)}]_vars

\* An add completed a three-node ring on which a key is routed to one of
\* the two other nodes.
C4_Witness ==
  /\ GotFrom("add")
  /\ size(ring) = 3
  /\ \E k \in Keys : get(ring, sortedKeys, k) \in nodes(ring) \ {ret.arg}

\* C5: on a non-empty ring, for count >= 1, the first element of
\* getN(K, count) is get(K).
C5_GetNStartsWithGet ==
  (GotFrom("getN") /\ ret.count >= 1 /\ DOMAIN ring # {})
    => Len(ret.val) >= 1 /\ ret.val[1] = get(ring, sortedKeys, ret.arg)

\* A getN that wrapped around returned two nodes, get's node first.
C5_Witness ==
  /\ GotFrom("getN")
  /\ Wraps(ret.arg)
  /\ Len(ret.val) = 2
  /\ ret.val[1] = ring[Min(DOMAIN ring)]

\* C6: getN(K, C) holds no node twice, and only members of nodes.
C6_GetNUniqueMembers ==
  GotFrom("getN")
    => /\ \A i, j \in 1..Len(ret.val) : i # j => ret.val[i] # ret.val[j]
       /\ \A i \in 1..Len(ret.val) : ret.val[i] \in nodes(ring)

\* A getN for three nodes walked three positions of two nodes: it met one
\* node twice and returned it once.
C6_Witness ==
  /\ GotFrom("getN")
  /\ ret.count = 3
  /\ Len(sortedKeys) = 3
  /\ size(ring) = 2
  /\ Len(ret.val) = 2

\* C7: when count >= size, getN(K, count) has length size and holds exactly
\* the members of nodes.
C7_GetNAllNodes ==
  (GotFrom("getN") /\ ret.count >= size(ring))
    => Len(ret.val) = size(ring) /\ ValuesOf(ret.val) = nodes(ring)

\* A getN for more nodes than the ring holds returned both of its nodes.
C7_Witness ==
  /\ GotFrom("getN")
  /\ size(ring) = 2
  /\ ret.count > size(ring)
  /\ ValuesOf(ret.val) = nodes(ring)

\* C8: for 1 <= count <= size, getN(K, count) returns exactly count nodes.
C8_GetNExactCount ==
  (GotFrom("getN") /\ 1 <= ret.count /\ ret.count <= size(ring))
    => Len(ret.val) = ret.count

\* A getN for two nodes of a three-node ring returned two.
C8_Witness ==
  /\ GotFrom("getN")
  /\ ret.count = 2
  /\ size(ring) = 3
  /\ Len(ret.val) = 2

\* C9: getN(K, C) lists nodes in ring-walk order: X precedes Y exactly when
\* the walk from the position get(K) resolves to, upwards and wrapping,
\* meets a position of X before any position of Y.
C9_GetNRingWalkOrder ==
  GotFrom("getN") => InWalkOrder(ret.arg, ret.val)

\* A getN returned three nodes on a walk that started above the smallest
\* position and wrapped.
C9_Witness ==
  /\ GotFrom("getN")
  /\ Len(ret.val) = 3
  /\ Rank(Successor(ret.arg)) > 0

\* C10: getN with a valid key returns the empty sequence, and does not
\* throw, when the ring has no position or count <= 0.
C10_GetNEmpty ==
  /\ (ret.op = "getN" /\ ValidKey(ret.arg)) => ~ret.threw
  /\ (GotFrom("getN") /\ (DOMAIN ring = {} \/ ret.count <= 0)) => ret.val = <<>>

\* A getN for a negative count on a ring with nodes returned nothing.
C10_Witness ==
  /\ GotFrom("getN")
  /\ ret.count < 0
  /\ size(ring) >= 1
  /\ ret.val = <<>>
\* The ring m agrees with the ring of the state on get, getN, size and nodes.
AgreesWithRing(m) ==
  LET keys == sortKeys(m)
  IN /\ size(m) = size(ring)
     /\ nodes(m) = nodes(ring)
     /\ \A k \in Keys : get(m, keys, k) = get(ring, sortedKeys, k)
     /\ \A k \in Keys, c \in Counts :
          getN(m, keys, k, c) = getN(ring, sortedKeys, k, c)

(***************************************************************************)
(* C11  Serialization round trip: the ring fromJSON makes of the toJSON of *)
(* a ring reached by add and remove agrees with that ring on get and getN  *)
(* for every key and count, on size and on nodes as a set.  Stated for     *)
(* the order of the nodes array left open: some listing of the nodes       *)
(* restores an agreeing ring.                                              *)
(***************************************************************************)
C11_RoundTripAgrees ==
  GotFrom("toJSON")
    => \E listed \in Listings(ret.val[1].nodes) :
         AgreesWithRing(fromJSON(listed, ret.val[1].replicas))

(***************************************************************************)
(* C12  toJSON returns the distinct nodes that own a position of the ring, *)
(* each once (as many as size), and the replica count of the ring, and     *)
(* nothing else: no positions.                                             *)
(***************************************************************************)
C12_ToJSONNodesAndReplicas ==
  GotFrom("toJSON")
    => LET json == ret.val[1]
       IN /\ DOMAIN json = {"nodes", "replicas"}
          /\ json.nodes = {ring[p] : p \in DOMAIN ring}
          /\ Cardinality(json.nodes) = size(ring)
          /\ json.replicas = replicas

\* toJSON of two nodes on three positions, one of them owning two.
C12_Witness ==
  /\ GotFrom("toJSON")
  /\ replicas = 2
  /\ Cardinality(DOMAIN ring) = 3
  /\ Cardinality(ret.val[1].nodes) = 2

(***************************************************************************)
(* C13  Idempotent add: a second add(N) right after add(N) leaves the      *)
(* mapping from positions to nodes, the sorted index and with them size,   *)
(* nodes and the number of positions as the first add(N) left them.        *)
(***************************************************************************)
C13_AddTwiceChangesNothing ==
  [][(GotFrom("add") /\ ret'.op = "add" /\ ~ret'.threw /\ ret'.arg = ret.arg)
       => /\ ring' = ring
          /\ sortedKeys' = sortedKeys
          /\ size(ring') = size(ring)
          /\ nodes(ring') = nodes(ring)
          /\ Len(sortedKeys') = Len(sortedKeys)]_vars

\* After add(N) that left N beside two other nodes; add(N) follows from here.
C13_Witness ==
  /\ GotFrom("add")
  /\ size(ring) = 3
  /\ \E p \in DOMAIN ring : ring[p] = ret.arg

C15_RemovedNodeStaysOut ==
  [][\A n \in Nodes :
       /\ (ret'.op = "remove" /\ ~ret'.threw /\ ret'.arg = n)
            => \A p \in DOMAIN ring' : ring'[p] # n
       /\ (n \notin nodes(ring) /\ ~(ret'.op = "add" /\ ret'.arg = n))
            => /\ n \notin nodes(ring')
               /\ (ret'.op = "get" /\ ~ret'.threw) => ret'.val # <<n>>
               /\ (ret'.op = "getN" /\ ~ret'.threw) => ~InSeq(n, ret'.val)]_vars

\* After remove(N) that left the two other nodes in the ring.
C15_Witness ==
  /\ GotFrom("remove")
  /\ size(ring) = 2
  /\ replicas = 2
  /\ ret.arg \notin nodes(ring)

\* The positions of the mapping m that node n owns.
PositionsOf(m, n) == {p \in DOMAIN m : m[p] = n}

(***************************************************************************)
(* C16  remove(N) of a node N in nodes takes size down by exactly one:     *)
(* every other node that was in nodes is in nodes afterwards and owns the  *)
(* positions it owned.                                                     *)
(***************************************************************************)
C16_RemoveTakesOnlyTheRemoved ==
  [][(ret'.op = "remove" /\ ~ret'.threw /\ ret'.arg \in nodes(ring))
       => /\ size(ring') = size(ring) - 1
          /\ \A n \in nodes(ring) \ {ret'.arg} :
               /\ n \in nodes(ring')
               /\ PositionsOf(ring', n) = PositionsOf(ring, n)]_vars

(***************************************************************************)
(* C17  With at least one replica, add(N) of a node N that is not in nodes *)
(* puts N in nodes and takes size up by exactly one: every node that was   *)
(* in nodes is in nodes afterwards.                                        *)
(***************************************************************************)
C17_AddBringsOneNode ==
  [][(ret'.op = "add" /\ ~ret'.threw /\ replicas >= 1
        /\ ret'.arg \notin nodes(ring))
       => /\ ret'.arg \in nodes(ring')
          /\ size(ring') = size(ring) + 1
          /\ nodes(ring) \subseteq nodes(ring')]_vars

\* No two virtual-node keys of n, and no key of n and of another node,
\* hash to the same position.
CollisionFree(n) ==
  /\ \A i, j \in 0..(replicas - 1) :
       hash[virtualKey(n, i)] = hash[virtualKey(n, j)] => i = j
  /\ \A o \in Nodes \ {n} : \A i, j \in 0..(replicas - 1) :
       hash[virtualKey(n, i)] # hash[virtualKey(o, j)]

(***************************************************************************)
(* C18  Where the hash has no collision on the virtual-node keys, after    *)
(* any adds and removes every node in nodes owns exactly replicas          *)
(* positions, and when that is so of all of them the positions count that  *)
(* toString reports is replicas times size.                                *)
(***************************************************************************)
C18_ReplicasPositionsPerNode ==
  /\ \A n \in nodes(ring) :
       CollisionFree(n) => Cardinality(PositionsOf(ring, n)) = replicas
  /\ (GotFrom("toString") /\ \A n \in nodes(ring) : CollisionFree(n))
       => ret.val = <<"HashOrbit(nodes=" \o ToString(size(ring))
                        \o ", positions=" \o ToString(replicas * size(ring))
                        \o ", replicas=" \o ToString(replicas) \o ")">>

\* toString of a ring of three nodes without collisions.
C18_Witness ==
  /\ GotFrom("toString")
  /\ size(ring) = 3
  /\ \A n \in nodes(ring) : CollisionFree(n)
  /\ ret.val = <<"HashOrbit(nodes=3, positions=3, replicas=1)">>

(***************************************************************************)
(* C19  When every node that was ever added has been removed since (the    *)
(* last call for it is a remove), the ring is empty: no positions, size 0, *)
(* no nodes, and get returns undefined.                                    *)
(***************************************************************************)
C19_AllRemovedRingEmpty ==
  (\A n \in Nodes : lastOp[n] # "add")
    => /\ DOMAIN ring = {}
       /\ sortedKeys = <<>>
       /\ size(ring) = 0
       /\ nodes(ring) = {}
       /\ GotFrom("get") => ret.val = <<undefined>>

\* get on a ring whose three nodes were added and removed again.
C19_Witness ==
  /\ \A n \in Nodes : lastOp[n] = "remove"
  /\ GotFrom("get")
  /\ ret.val = <<undefined>>

(***************************************************************************)
(* C20  add, remove, get and getN throw when the identifier is the empty   *)
(* string or longer than 1000 characters, and only then: an identifier of  *)
(* 1 to 1000 characters is accepted as it is, a single blank included      *)
(* (nothing is trimmed).                                                   *)
(***************************************************************************)
C20_ThrowsIffEmptyOrTooLong ==
  ret.op \in {"add", "remove", "get", "getN"}
    => /\ ret.threw <=> (ret.arg = "" \/ Len(ret.arg) > 1000)
       /\ (Len(ret.arg) >= 1 /\ Len(ret.arg) <= 1000) => ~ret.threw
       /\ (GotFrom("add") /\ replicas >= 1) => ret.arg \in nodes(ring)

\* getN throws on 1001 characters in a ring that holds the node of 1000
\* characters and the node that is a single blank.
C20_Witness ==
  /\ ret.op = "getN"
  /\ ret.threw
  /\ Len(ret.arg) = 1001
  /\ nodes(ring) = {" ", Longest}

(***************************************************************************)
(* C21  The Error of add and remove names the parameter 'Node identifier', *)
(* that of get and getN names it 'Key'; the empty identifier gives the     *)
(* '... cannot be empty' message, the identifier of more than 1000         *)
(* characters the '... exceeds maximum length of 1000 characters' one.     *)
(***************************************************************************)
C21_ErrorNamesParameter ==
  ret.threw
    => LET name == IF ret.op \in {"add", "remove"} THEN "Node identifier"
                   ELSE "Key"
       IN /\ ret.op \in {"add", "remove", "get", "getN"}
          /\ ret.arg = ""
               => ret.val = <<name \o " cannot be empty">>
          /\ ret.arg # ""
               => ret.val =
                    <<name \o " exceeds maximum length of 1000 characters">>

\* get throws on a key of 1001 characters.
C21_Witness ==
  /\ ret.op = "get"
  /\ ret.threw
  /\ ret.arg = TooLong
  /\ ret.val = <<"Key exceeds maximum length of 1000 characters">>

(***************************************************************************)
(* C22  Determinism: what get(K) and getN(K, C) return is a function of K, *)
(* C and the mapping from positions to nodes alone, whatever calls led to  *)
(* the mapping: so a repeated call on an unchanged ring, and a call on     *)
(* another ring that holds the same mapping, return the same.              *)
(***************************************************************************)
C22_LookupDependsOnMappingOnly ==
  /\ GotFrom("get") => ret.val = <<get(ring, sortKeys(ring), ret.arg)>>
  /\ GotFrom("getN")
       => ret.val = getN(ring, sortKeys(ring), ret.arg, ret.count)

\* getN for two of the three nodes of a ring that several orders of add
\* and remove lead to.
C22_Witness ==
  /\ GotFrom("getN")
  /\ size(ring) = 3
  /\ ret.count = 2
  /\ Len(ret.val) = 2

\* The least b with 2^b >= n: ceil(log2(n)) for n >= 1.
RECURSIVE CeilLog2(_)
CeilLog2(n) == IF n <= 1 THEN 0 ELSE 1 + CeilLog2((n + 1) \div 2)

\* The search of the last get: <<index found, iterations of the loop>>.
SearchOfGet ==
  binarySearchCounted(sortedKeys, hash32(ret.arg), 0, Len(sortedKeys), 0)

(***************************************************************************)
(* C24  Lookup is logarithmic: on a ring of P stored positions get(K)      *)
(* makes at most ceil(log2(P + 1)) iterations of the binary-search loop.   *)
(***************************************************************************)
C24_SearchIterationsLogarithmic ==
  (GotFrom("get") /\ DOMAIN ring # {})
    => /\ SearchOfGet[1] = binarySearch(sortedKeys, hash32(ret.arg))
       /\ SearchOfGet[2] <= CeilLog2(Cardinality(DOMAIN ring) + 1)

\* get on eight positions taking the four iterations of the bound.
C24_Witness ==
  /\ GotFrom("get")
  /\ Cardinality(DOMAIN ring) = 8
  /\ SearchOfGet[2] = 4

(***************************************************************************)
(* C25  Index invariant: from construction on and after every add and      *)
(* remove, sortedKeys holds exactly the keys of the mapping, each once, in *)
(* strictly ascending order.                                               *)
(***************************************************************************)
C25_IndexIsSortedKeysOfMapping ==
  /\ ValuesOf(sortedKeys) = DOMAIN ring
  /\ Len(sortedKeys) = Cardinality(DOMAIN ring)
  /\ \A i, j \in 1..Len(sortedKeys) : i < j => sortedKeys[i] < sortedKeys[j]

\* After a remove that left the positions 0 and 2 of a ring of three.
C25_Witness ==
  /\ GotFrom("remove")
  /\ sortedKeys = <<0, 2>>
  /\ DOMAIN ring = {0, 2}

(***************************************************************************)
(* C26  Re-adding a present node is a no-op at any time: in every          *)
(* reachable state where N is in nodes, whatever was called since N was    *)
(* added, add(N) leaves the mapping and the sorted index unchanged.        *)
(***************************************************************************)
C26_ReAddPresentChangesNothing ==
  [][(ret'.op = "add" /\ ~ret'.threw /\ ret'.arg \in nodes(ring))
       => /\ ring' = ring
          /\ sortedKeys' = sortedKeys]_vars

\* Nodes a and b have virtual-node keys that hash to position p.
CollideAt(a, b, p) ==
  \E i, j \in 0..(replicas - 1) :
    hash[virtualKey(a, i)] = p /\ hash[virtualKey(b, j)] = p

(***************************************************************************)
(* C27  Last write wins: when a key of A and a key of another node B hash  *)
(* to one position, after add(B), add(A) having come before it or not,     *)
(* the position is owned by B, and the sorted index lists it once (the     *)
(* mapping, a Map, has one entry for it).                                  *)
(***************************************************************************)
C27_LastWriteWins ==
  GotFrom("add")
    => \A a \in Nodes \ {ret.arg} : \A p \in Positions :
         CollideAt(a, ret.arg, p)
           => /\ p \in DOMAIN ring
              /\ ring[p] = ret.arg
              /\ Cardinality({k \in 1..Len(sortedKeys) : sortedKeys[k] = p}) = 1

\* After add(A) and add(B): A is still in nodes, on another position, and
\* B owns the position they collide at.
C27_Witness ==
  /\ GotFrom("add")
  /\ \E a \in nodes(ring) \ {ret.arg} : \E p \in Positions :
       CollideAt(a, ret.arg, p) /\ ring[p] = ret.arg

(***************************************************************************)
(* C28  Ownership invariant: in every reachable state a stored position p  *)
(* owned by node N is hash("N:i") for some i in 0..replicas-1; so there    *)
(* are never more stored positions than replicas times size.               *)
(***************************************************************************)
C28_PositionsAreOwnersHashes ==
  /\ \A p \in DOMAIN ring :
       \E i \in 0..(replicas - 1) : hash[virtualKey(ring[p], i)] = p
  /\ Cardinality(DOMAIN ring) <= replicas * size(ring)
  /\ Len(sortedKeys) <= replicas * size(ring)

\* Two nodes of two replicas on three positions, one lost to a collision.
C28_Witness ==
  /\ replicas = 2
  /\ size(ring) = 2
  /\ Cardinality(DOMAIN ring) = 3
  /\ GotFrom("add")

(***************************************************************************)
(* C29  A call of add, remove, get or getN that throws its validation      *)
(* Error leaves the ring as it was: the mapping, the sorted index and      *)
(* replicas are the same before and after the failed call.                 *)
(***************************************************************************)
C29_FailedCallChangesNothing ==
  [][ret'.threw
       => /\ ring' = ring
          /\ sortedKeys' = sortedKeys
          /\ replicas' = replicas]_vars

\* add has thrown on a ring that holds two nodes.
C29_Witness ==
  /\ ret.op = "add"
  /\ ret.threw
  /\ size(ring) = 2
  /\ Len(sortedKeys) >= 2

\* The calls that are to leave the ring they are called on as it is, and
\* the calls made on the restored ring.
ReadOnlyOps == {"get", "getN", "size", "nodes", "toJSON", "toString", "fromJSON"}
RestoredOps == {"restored.add", "restored.remove"}

(***************************************************************************)
(* C30  get, getN, size, nodes, toJSON, toString and fromJSON are          *)
(* read-only: they leave the mapping, the sorted index and replicas of the *)
(* ring unchanged; and add and remove called on the ring that fromJSON     *)
(* returned leave the original ring unchanged.                             *)
(***************************************************************************)
C30_ReadOnlyCallsAndRestoredRing ==
  [][(ret'.op \in ReadOnlyOps \cup RestoredOps)
       => /\ ring' = ring
          /\ sortedKeys' = sortedKeys
          /\ replicas' = replicas]_vars

\* The restored ring was emptied by remove while the original holds both
\* nodes.
C30_Witness ==
  /\ GotFrom("restored.remove")
  /\ restored[1].ring = EmptyMap
  /\ size(ring) = 2

(***************************************************************************)
(* C31  The replica count is fixed at construction, 150 when no option is  *)
(* given, and no add, remove, get, getN, toJSON, toString or fromJSON      *)
(* changes it; toJSON and toString report it, and so the ring of fromJSON  *)
(* has it.                                                                 *)
(***************************************************************************)
C31_ReplicasFixedAtConstruction ==
  /\ replicas = IF ret.val = <<>> THEN 150 ELSE ret.val[1]
  /\ [][(replicas' = replicas)
         /\ (ret'.op = "toJSON" => ret'.val[1].replicas = replicas)
         /\ (ret'.op = "toString"
               => ret'.val = <<"HashOrbit(nodes=" \o ToString(size(ring))
                                 \o ", positions=" \o ToString(Len(sortedKeys))
                                 \o ", replicas=" \o ToString(replicas) \o ")">>)
         /\ (ret'.op = "fromJSON" => restored'[1].replicas = replicas)]_vars

\* toString of a ring made without options, after an add.
C31_Witness ==
  /\ GotFrom("toString")
  /\ size(ring) = 1
  /\ ret.val = <<"HashOrbit(nodes=1, positions=3, replicas=150)">>

\* The mapping after add(first); add(second) on the ring of the state.
AfterAdds(first, second) ==
  addLoop(addLoop(ring, first, 0, replicas), second, 0, replicas)

(***************************************************************************)
(* C32  Order independence of membership: from any state, add(A); add(B)   *)
(* and add(B); add(A) give the same mapping from positions to nodes, and   *)
(* with it the same results of get.                                        *)
(***************************************************************************)
C32_AddOrderIndependent ==
  \A a, b \in Nodes :
    /\ AfterAdds(a, b) = AfterAdds(b, a)
    /\ \A k \in Keys :
         get(AfterAdds(a, b), sortKeys(AfterAdds(a, b)), k)
           = get(AfterAdds(b, a), sortKeys(AfterAdds(b, a)), k)

\* The mapping after add(n); remove(n) on the ring of the state.
AfterAddRemove(n) ==
  removeLoop(addLoop(ring, n, 0, replicas), n, 0, replicas)

(***************************************************************************)
(* C33  remove undoes add: in every reachable state and for every node N   *)
(* that is not in nodes, add(N) followed by remove(N) gives back the       *)
(* mapping and the sorted index of before.                                 *)
(***************************************************************************)
C33_RemoveUndoesAdd ==
  \A n \in Nodes \ nodes(ring) :
    /\ AfterAddRemove(n) = ring
    /\ sortKeys(AfterAddRemove(n)) = sortedKeys

\* The sorted index is the keys of the mapping, each once.
IndexIsKeySet ==
  /\ ValuesOf(sortedKeys) = DOMAIN ring
  /\ Len(sortedKeys) = Cardinality(DOMAIN ring)

(***************************************************************************)
(* C34  add and remove are not atomic to a reader that runs between their  *)
(* writes and their rebuild of sortedKeys: it can see an index that is not *)
(* the key set of the mapping, for remove an index entry without owner.    *)
(* While no add or remove is under way the index is the key set, and a get *)
(* made then on a ring that holds positions returns one of its nodes.      *)
(***************************************************************************)
C34_ConsistentWhenNoneUnderWay ==
  inProgress = <<>>
    => /\ IndexIsKeySet
       /\ (GotFrom("get") /\ DOMAIN ring # {}) => ret.val[1] \in nodes(ring)

\* A get between the deletes of a remove and its rebuild: the index still
\* lists a deleted position and get has returned undefined on a ring that
\* holds a node.
C34_Witness ==
  /\ inProgress # <<>>
  /\ inProgress[1] = "remove"
  /\ ~IndexIsKeySet
  /\ \E p \in ValuesOf(sortedKeys) : p \notin DOMAIN ring
  /\ GotFrom("get")
  /\ ret.val = <<undefined>>
  /\ DOMAIN ring # {}

\* The walk of the last getN: <<result, iterations of the loop>>.
WalkOfGetN == getNCounted(ring, sortedKeys, ret.arg, ret.count)

(***************************************************************************)
(* C35  getN terminates: its loop makes at most P iterations on P stored   *)
(* positions, reads each position at most once, wrapping past the end, and *)
(* stops as soon as count distinct nodes are collected; a count above the  *)
(* number of distinct nodes ends the walk after all P positions.           *)
(***************************************************************************)
C35_WalkBoundedAndStopsAtCount ==
  GotFrom("getN")
    => \A result \in {WalkOfGetN[1]}, visited \in {WalkOfGetN[2]} :
          /\ result = ret.val
          /\ Len(visited) <= Len(sortedKeys)
          /\ \A i \in 1..Len(visited) :
               /\ visited[i][1] \in 0..(Len(sortedKeys) - 1)
               /\ \A j \in 1..Len(visited) :
                    i # j => visited[i][1] # visited[j][1]
               /\ i < Len(visited) => visited[i][2] < ret.count
               /\ i > 1 => visited[i][1]
                             = (visited[i - 1][1] + 1) % Len(sortedKeys)
          /\ Len(visited) < Len(sortedKeys)
               => Len(result) = IF ret.count > 0 THEN ret.count ELSE 0
          /\ ret.count > size(ring)
               => Len(visited) = Len(sortedKeys) /\ Len(result) = size(ring)

\* getN(K, 3) on two nodes at three positions: the walk starts inside the
\* index, wraps and ends after the three positions with both nodes.
C35_Witness ==
  /\ GotFrom("getN")
  /\ ret.count = 3
  /\ size(ring) = 2
  /\ Len(sortedKeys) = 3
  /\ Len(WalkOfGetN[2]) = 3
  /\ WalkOfGetN[2][1][1] > 0
  /\ Len(ret.val) = 2

(***************************************************************************)
(* C36  A ring made with replicas <= 0 is accepted and stays empty: add(N) *)
(* returns without storing a position, so after any adds size is 0, nodes  *)
(* is empty, get returns undefined and getN returns [].                    *)
(***************************************************************************)
C36_NoReplicasNoPositions ==
  replicas <= 0
    => /\ ~ret.threw
       /\ DOMAIN ring = {}
       /\ sortedKeys = <<>>
       /\ size(ring) = 0
       /\ nodes(ring) = {}
       /\ GotFrom("get") => ret.val = <<undefined>>
       /\ GotFrom("getN") => ret.val = <<>>
       /\ GotFrom("toJSON") => ret.val[1].nodes = {}

\* add("a") has returned on a ring made with replicas -1.
C36_Witness ==
  /\ replicas < 0
  /\ GotFrom("add")
  /\ ret.arg = "a"
  /\ DOMAIN ring = {}

(***************************************************************************)
(* C37  binarySearch(target) on a strictly ascending sortedKeys of length  *)
(* P ends with an index i in 0..P such that every position before i is     *)
(* below target and every position from i on is at or above it: P when all *)
(* positions are below target, 0 on an empty index.                        *)
(***************************************************************************)
C37_SearchFindsLowerBound ==
  (\A a, b \in 1..Len(sortedKeys) : a < b => sortedKeys[a] < sortedKeys[b])
    => \A key \in SearchKeys :
         LET target == hash32(key)
             i == binarySearch(sortedKeys, target)
         IN /\ i \in 0..Len(sortedKeys)
            /\ \A j \in 0..(Len(sortedKeys) - 1) :
                 /\ j < i => at(sortedKeys, j) < target
                 /\ j >= i => at(sortedKeys, j) >= target
            /\ (\A j \in 1..Len(sortedKeys) : sortedKeys[j] < target)
                 => i = Len(sortedKeys)
            /\ sortedKeys = <<>> => i = 0

\* get(K) on eight positions, all below the hash of K: the search has ended
\* at index 8 and get has wrapped to the first position.
C37_Witness ==
  /\ GotFrom("get")
  /\ Len(sortedKeys) = MaxSearchPos
  /\ hash32(ret.arg) = MaxSearchPos
  /\ binarySearch(sortedKeys, hash32(ret.arg)) = Len(sortedKeys)
  /\ ret.val = <<"a">>

====
